---- MODULE Spec2Model ----
(***************************************************************************)
(* GitSync (src/gitsync.js): forward synchronisation of GitHub issue       *)
(* events to Azure DevOps work items, and the reverse reconciliation of    *)
(* recently changed work items back onto the issues.                       *)
(*                                                                         *)
(* Text the code inspects character by character (tags, label names,       *)
(* handles) is a sequence of one-character strings; text the code only     *)
(* copies or compares as a whole (titles, bodies, state names) is a        *)
(* string.                                                                 *)
(***************************************************************************)
EXTENDS Integers, Sequences, FiniteSets, TLC

(* ---------------------------------------------------------------- text *)

\* "GitHub Issue #"  (gitsync.js:224, 313)
IssueTagPrefix == <<"G","i","t","H","u","b"," ","I","s","s","u","e"," ","#">>
\* "GitHub Repo: "  (gitsync.js:225, 313)
RepoTagPrefix == <<"G","i","t","H","u","b"," ","R","e","p","o",":"," ">>
\* "GitHub Label: "  (gitsync.js:113)
LabelTagPrefix == <<"G","i","t","H","u","b"," ","L","a","b","e","l",":"," ">>
\* ";"  (gitsync.js:113, 313)
Semi == <<";">>
\* "noado"  (gitsync.js:151, 861)
ExcludeLabel == <<"n","o","a","d","o">>

\* String.prototype.toLowerCase on one character
LowerChar(c) ==
  CASE c = "A" -> "a" [] c = "B" -> "b" [] c = "C" -> "c" [] c = "D" -> "d"
    [] c = "E" -> "e" [] c = "F" -> "f" [] c = "G" -> "g" [] c = "H" -> "h"
    [] c = "I" -> "i" [] c = "J" -> "j" [] c = "K" -> "k" [] c = "L" -> "l"
    [] c = "M" -> "m" [] c = "N" -> "n" [] c = "O" -> "o" [] c = "P" -> "p"
    [] c = "Q" -> "q" [] c = "R" -> "r" [] c = "S" -> "s" [] c = "T" -> "t"
    [] c = "U" -> "u" [] c = "V" -> "v" [] c = "W" -> "w" [] c = "X" -> "x"
    [] c = "Y" -> "y" [] c = "Z" -> "z" [] OTHER -> c

\* String.prototype.toLowerCase
toLowerCase(s) == [i \in 1..Len(s) |-> LowerChar(s[i])]

\* sub occurs in s at position i
OccursAt(s, sub, i) ==
  /\ i >= 1
  /\ i + Len(sub) - 1 <= Len(s)
  /\ \A j \in 1..Len(sub) : s[i + j - 1] = sub[j]

\* String.prototype.indexOf, 1-based; 0 when sub does not occur
indexOf(s, sub) ==
  IF \E i \in 1..(Len(s) + 1) : OccursAt(s, sub, i)
  THEN CHOOSE i \in 1..(Len(s) + 1) :
         /\ OccursAt(s, sub, i)
         /\ \A k \in 1..(i - 1) : ~OccursAt(s, sub, k)
  ELSE 0

\* String.prototype.includes
includes(s, sub) == indexOf(s, sub) # 0

\* String.prototype.startsWith
startsWith(s, sub) == OccursAt(s, sub, 1)

\* String.prototype.replace(sub, rep) with a string pattern: the first
\* occurrence only
replace(s, sub, rep) ==
  LET i == indexOf(s, sub)
  IN IF i = 0 THEN s
     ELSE SubSeq(s, 1, i - 1) \o rep \o SubSeq(s, i + Len(sub), Len(s))

(* ------------------------------------------------------- Field Mapper *)

\* showdown's converter.makeHtml on the bodies of the model: two markdown
\* spellings of one emphasis have the same HTML
makeHtml(md) ==
  CASE md = "*x*" -> "<p><em>x</em></p>"
    [] md = "_x_" -> "<p><em>x</em></p>"
    [] md = "y" -> "<p>y</p>"
    [] OTHER -> ""

\* showdown's converter.makeMarkdown followed by .replace(/<br>/g, "").trim()
\* (gitsync.js:873-876)
makeMarkdown(html) ==
  CASE html = "<p><em>x</em></p>" -> "*x*"
    [] html = "<p>y</p>" -> "y"
    [] OTHER -> ""

\* config.issue.labels and the like: an array of label names, or absent
Labels(names) == [present |-> TRUE, names |-> names]
NoLabels == [present |-> FALSE, names |-> <<>>]

RECURSIVE AppendLabels(_, _)
AppendLabels(labels, names) ==
  IF names = <<>> THEN labels
  ELSE AppendLabels(labels \o LabelTagPrefix \o Head(names) \o Semi, Tail(names))

\* createLabels with the label tags before the seed
createLabelsSeedLast(seed, labelsObj) ==
  IF ~labelsObj.present THEN seed ELSE AppendLabels(<< >>, labelsObj.names) \o seed

\* createLabels(seed, labelsObj)
createLabels(seed, labelsObj) ==
  IF ~labelsObj.present THEN seed ELSE AppendLabels(seed, labelsObj.names)

\* labels?.some(x => x.name?.toLowerCase() === "noado")
HasExcludeLabel(labelsObj) ==
  /\ labelsObj.present
  /\ \E i \in 1..Len(labelsObj.names) :
       toLowerCase(labelsObj.names[i]) = ExcludeLabel


\* the state table config.ado.states: its keys in insertion order, the order
\* Object.keys walks (gitsync.js:879-882)
UNDEFINED == "undefined"

\* config.ado.states[key]
StateValue(states, key) ==
  IF \E i \in 1..Len(states) : states[i].k = key
  THEN states[CHOOSE i \in 1..Len(states) : states[i].k = key].v
  ELSE UNDEFINED

\* the state table of the forward model
ConfiguredStates ==
  << [k |-> "closed", v |-> "Closed"],
     [k |-> "deleted", v |-> "Removed"],
     [k |-> "reopened", v |-> "Active"] >>

\* config.ado.mappings.handles[login]; << >> when there is no entry
HandleValue(handles, login) ==
  IF \E i \in 1..Len(handles) : handles[i].k = login
  THEN handles[CHOOSE i \in 1..Len(handles) : handles[i].k = login].v
  ELSE << >>

\* getAssignee falling back to the default whatever useDefault says
getAssigneeAnyCaller(config, useDefault) ==
  LET assignee == IF config.assignee # << >>
                  THEN HandleValue(config.handles, config.assignee)
                  ELSE << >>
  IN IF assignee # << >> THEN assignee
     ELSE IF config.assignedTo # << >> THEN config.assignedTo
     ELSE assignee

\* getAssignee(config, useDefault); << >> is null. A config without
\* mappings.handles has the empty table.
getAssignee(config, useDefault) ==
  LET assignee == IF config.assignee # << >>
                  THEN HandleValue(config.handles, config.assignee)
                  ELSE << >>
  IN IF assignee # << >> THEN assignee
     ELSE IF useDefault /\ config.assignedTo # << >> THEN config.assignedTo
     ELSE assignee

(* --------------------------------------------------- Mutation Builder *)
\* The optional area path, iteration path and bypass-rules operations
\* (gitsync.js:350-375) belong to options the model leaves unset.

Op(op, path, value) == [op |-> op, path |-> path, value |-> value]

\* the System.History entry of each builder, named by the words that tell
\* the builders' entries apart
HistoryOp(what) == Op("add", "System.History", what)

\* createWorkItem: the patch document (gitsync.js:285-348)
createWorkItemPatch(config) ==
  << Op("add", "System.Title", config.title),
     Op("add", "System.Description", makeHtml(config.body)),
     Op("add", "Microsoft.VSTS.TCM.ReproSteps", makeHtml(config.body)),
     Op("add", "relations/-", "System.LinkTypes.Hierarchy-Reverse"),
     Op("add", "System.Tags",
        createLabels(IssueTagPrefix \o config.number \o Semi
                       \o RepoTagPrefix \o config.repo \o Semi,
                     config.labels)),
     Op("add", "relations/-", "Hyperlink"),
     HistoryOp("created") >>
  \o (IF getAssignee(config, TRUE) # << >>
      THEN << Op("add", "System.AssignedTo", getAssignee(config, TRUE)) >>
      ELSE << >>)

\* closeWorkItem (gitsync.js:409-437)
closeWorkItemPatch(config) ==
  << Op("add", "System.State", StateValue(config.states, "closed")) >>
  \o (IF config.closed_at # "" THEN << HistoryOp("closed") >> ELSE << >>)

\* deleteWorkItem (gitsync.js:439-469)
deleteWorkItemPatch(config) ==
  << Op("add", "System.State", StateValue(config.states, "deleted")),
     Op("add", "IntuneAgile.ResolutionReason", "Won't Fix"),
     HistoryOp("removed") >>

\* reopenWorkItem (gitsync.js:471-496)
reopenWorkItemPatch(config) ==
  << Op("add", "System.State", StateValue(config.states, "reopened")),
     HistoryOp("reopened") >>

\* editWorkItem (gitsync.js:498-538)
editWorkItemPatch(config) ==
  << Op("replace", "System.Title", config.title),
     Op("replace", "System.Description", makeHtml(config.body)),
     Op("replace", "Microsoft.VSTS.TCM.ReproSteps", makeHtml(config.body)),
     HistoryOp("edited") >>

\* labelWorkItem (gitsync.js:540-565)
labelWorkItemPatch(config) ==
  << Op("add", "System.Tags", createLabels(<< >>, Labels(<< config.label >>))),
     HistoryOp("addition of label") >>

\* unlabelWorkItem: the patch built from the fetched work item
\* (gitsync.js:578-602)
unlabelWorkItemPatch(config, tags) ==
  << Op("replace", "System.Tags",
        replace(tags, createLabels(<< >>, Labels(<< config.label >>)), << >>)),
     HistoryOp("removal of label") >>

\* assignWorkItem (gitsync.js:608-641)
assignWorkItemPatch(config) ==
  << IF getAssignee(config, FALSE) # << >>
     THEN Op("add", "System.AssignedTo", getAssignee(config, FALSE))
     ELSE Op("remove", "System.AssignedTo", << >>),
     HistoryOp("assigned") >>

\* unassignWorkItem (gitsync.js:643-669)
unassignWorkItemPatch(config) ==
  << Op("remove", "System.AssignedTo", << >>),
     HistoryOp("removal of assignment") >>

\* addComment (gitsync.js:671-700)
addCommentPatch(config) ==
  << HistoryOp("comment added") >>


(* ------------------------------------------------ mirror work-item service *)
\* Azure DevOps behind client.queryByWiql, getWorkItem, createWorkItem and
\* updateWorkItem. A patch is applied whole; "add" on System.Tags appends to
\* the tag string and "add" on System.History appends an entry.

EmptyItem ==
  [ title |-> "", desc |-> "", repro |-> "", tags |-> << >>, state |-> "New",
    reason |-> "", assignedTo |-> << >>, relations |-> << >>,
    history |-> << >> ]

ApplyOp(wi, o) ==
  CASE o.path = "System.History" -> [wi EXCEPT !.history = Append(@, o.value)]
    [] o.path = "relations/-" -> [wi EXCEPT !.relations = Append(@, o.value)]
    [] o.path = "System.Tags" ->
         IF o.op = "add" THEN [wi EXCEPT !.tags = @ \o o.value]
         ELSE [wi EXCEPT !.tags = o.value]
    [] o.path = "System.Title" -> [wi EXCEPT !.title = o.value]
    [] o.path = "System.Description" -> [wi EXCEPT !.desc = o.value]
    [] o.path = "Microsoft.VSTS.TCM.ReproSteps" -> [wi EXCEPT !.repro = o.value]
    [] o.path = "System.State" -> [wi EXCEPT !.state = o.value]
    [] o.path = "IntuneAgile.ResolutionReason" -> [wi EXCEPT !.reason = o.value]
    [] o.path = "System.AssignedTo" ->
         IF o.op = "remove" THEN [wi EXCEPT !.assignedTo = << >>]
         ELSE [wi EXCEPT !.assignedTo = o.value]
    [] OTHER -> wi

RECURSIVE ApplyPatch(_, _)
ApplyPatch(wi, patchDoc) ==
  IF patchDoc = << >> THEN wi
  ELSE ApplyPatch(ApplyOp(wi, Head(patchDoc)), Tail(patchDoc))

\* the WIQL filter of getWorkItem (gitsync.js:217-228): both CONTAINS
\* conditions on System.Tags
QueryMatches(wi, config) ==
  /\ includes(wi.tags, IssueTagPrefix \o config.number)
  /\ includes(wi.tags, RepoTagPrefix \o config.repo)

\* result.workItems of the query, in the service's order (ids ascending)
QueryResult(items, config) ==
  {id \in 1..Len(items) : QueryMatches(items[id], config)}

\* result.workItems[0] (gitsync.js:245-250); 0 when there is none
FirstMatch(items, config) ==
  IF QueryResult(items, config) = {} THEN 0
  ELSE CHOOSE id \in QueryResult(items, config) :
         \A other \in QueryResult(items, config) : id <= other


(* ------------------------------------------------------------- state *)

VARIABLES
  workItems,   \* the mirror service's work items, by id
  autoCreate,  \* config.ado.autoCreate
  inv,         \* the invocations of run(): position, event, locals, outcome
  nfail,       \* remote failures injected so far
  mirror,      \* reverse path: the work item of the batch, as the service holds it
  origin,      \* reverse path: its GitHub issue, as GitHub holds it
  ado,         \* reverse path: config.ado (the state table, the handle table)
  rv,          \* reverse path: updateIssue's position and locals
  pending,     \* reverse path: origin events waiting for the forward path
  trip         \* a value taken through a mapping and back: position and inputs

fwdVars == << workItems, autoCreate, inv, nfail >>

revVars == << mirror, origin, ado, rv, pending, trip >>

vars ==
  << workItems, autoCreate, inv, nfail, mirror, origin, ado, rv, pending, trip >>

(* ------------------------------------------------------------ inputs *)

\* remote calls that may fail in one behaviour
MaxFailures == 1

Invocations == {"A", "B"}

Actions ==
  { "opened", "closed", "deleted", "reopened", "edited", "labeled",
    "unlabeled", "assigned", "unassigned", "created" }

Bug == <<"b","u","g">>
Ui == <<"u","i">>
NoAdoMixed == <<"N","o","A","d","o">>
Repo == <<"o","/","r">>
Numbers == { <<"4">>, <<"7">> }
Al == <<"a","l">>
AlPrincipal == <<"a","l","@","x">>

LabelLists == { NoLabels, Labels(<< Bug >>), Labels(<< Bug, NoAdoMixed >>) }

\* the events an invocation may be started with
Configs ==
  { [ action |-> a, number |-> n, repo |-> Repo, labels |-> ls,
      label |-> l, title |-> "T", body |-> "y", closed_at |-> "2024",
      assignee |-> who, handles |-> << [k |-> Al, v |-> AlPrincipal] >>,
      assignedTo |-> << >>, states |-> ConfiguredStates ] :
      a \in Actions, n \in Numbers, ls \in LabelLists,
      l \in {Bug, Ui}, who \in { << >>, Al } }

\* only the fields the event's action reads vary
Relevant(c) ==
  /\ c.action \notin {"labeled", "unlabeled"} => c.label = Bug
  /\ c.action \notin {"assigned"} => c.assignee = << >>

\* The events of each invocation. A runs any event of issue #4; B, which
\* runs concurrently with it or after it, runs an event of either issue that
\* creates, tags or patches.
Events(i) ==
  IF i = "A"
  THEN {c \in Configs : Relevant(c) /\ c.number = <<"4">>}
  ELSE {c \in Configs : /\ Relevant(c)
                        /\ c.action \in {"opened", "labeled", "closed"}
                        /\ c.labels # NoLabels}

\* "PR_"  (gitsync.js:28-29)
PullRequestPrefix == <<"P","R","_">>

\* config.issue.node_id and config.issue.nodeId of an event; << >> is
\* undefined
NodeIds ==
  { [node_id |-> <<"I","_","k">>, nodeId |-> << >>],
    [node_id |-> <<"P","R","_","k">>, nodeId |-> << >>],
    [node_id |-> << >>, nodeId |-> <<"P","R","_","k">>] }

\* IsPullRequest reading node_id only
IsPullRequestNodeIdOnly(ids) ==
  startsWith(ids.node_id, PullRequestPrefix)

\* the test of run (gitsync.js:27-30)
IsPullRequest(ids) ==
  \/ startsWith(ids.node_id, PullRequestPrefix)
  \/ startsWith(ids.nodeId, PullRequestPrefix)

(* --------------------------------------------------------- locals *)

NullItem == [kind |-> "null", id |-> 0, tags |-> << >>]
ErrItem == [kind |-> "err", id |-> 0, tags |-> << >>]
FoundItem(id, wi) == [kind |-> "item", id |-> id, tags |-> wi.tags]

IdleInvocation ==
  [ pc |-> "idle", config |-> CHOOSE c \in Configs : TRUE,
    ids |-> CHOOSE ids \in NodeIds : ~IsPullRequest(ids), caller |-> "",
    builder |-> "", patchDoc |-> << >>, hit |-> 0, workItem |-> NullItem,
    nested |-> FALSE, result |-> "", calls |-> << >>, failed |-> FALSE,
    after |-> {} ]

Call(name, id, patchDoc) == [call |-> name, id |-> id, patchDoc |-> patchDoc]

\* the reverse path at rest
RevIdle ==
  /\ mirror = EmptyItem
  /\ origin = << >>
  /\ ado = << >>
  /\ rv = << >>
  /\ pending = << >>
  /\ trip = << >>

Init ==
  /\ RevIdle
  /\ workItems \in
       { << >>,
         << ApplyPatch(EmptyItem,
              createWorkItemPatch(CHOOSE c \in Configs :
                /\ c.action = "opened" /\ c.number = <<"4">>
                /\ c.labels = Labels(<< Bug >>) /\ Relevant(c))) >> }
  /\ autoCreate \in BOOLEAN
  /\ inv = [i \in Invocations |-> IdleInvocation]
  /\ nfail = 0


(* ------------------------------------------------------- performWork *)

\* the switch of performWork (gitsync.js:155-186)
ActionBuilder(action) ==
  CASE action = "opened" -> "createWorkItem"
    [] action = "closed" -> "closeWorkItem"
    [] action = "deleted" -> "deleteWorkItem"
    [] action = "reopened" -> "reopenWorkItem"
    [] action = "edited" -> "editWorkItem"
    [] action = "labeled" -> "labelWorkItem"
    [] action = "unlabeled" -> "unlabelWorkItem"
    [] action = "assigned" -> "assignWorkItem"
    [] action = "unassigned" -> "unassignWorkItem"
    [] action = "created" -> "addComment"
    [] OTHER -> ""

\* Dispatch with the exclude label compared without toLowerCase
DispatchCaseSensitive(config) ==
  IF /\ config.labels.present
     /\ \E k \in 1..Len(config.labels.names) : config.labels.names[k] = ExcludeLabel
  THEN "deleteWorkItem"
  ELSE ActionBuilder(config.action)

\* the builder performWork runs for an event (gitsync.js:149-186)
Dispatch(config) ==
  IF HasExcludeLabel(config.labels) THEN "deleteWorkItem"
  ELSE ActionBuilder(config.action)

\* the patch document a builder hands to updateWorkItem
BuilderPatch(builder, config) ==
  CASE builder = "closeWorkItem" -> closeWorkItemPatch(config)
    [] builder = "deleteWorkItem" -> deleteWorkItemPatch(config)
    [] builder = "reopenWorkItem" -> reopenWorkItemPatch(config)
    [] builder = "editWorkItem" -> editWorkItemPatch(config)
    [] builder = "labelWorkItem" -> labelWorkItemPatch(config)
    [] builder = "assignWorkItem" -> assignWorkItemPatch(config)
    [] builder = "unassignWorkItem" -> unassignWorkItemPatch(config)
    [] builder = "addComment" -> addCommentPatch(config)
    [] OTHER -> << >>

\* the function whose getWorkItem call comes first
FirstCaller(builder) ==
  IF builder \in {"createWorkItem", "unlabelWorkItem"} THEN builder
  ELSE "updateWorkItem"

\* run for the event of a pull request: logged and skipped
\* (gitsync.js:27-34)
run(i) ==
  /\ inv[i].pc = "idle"
  /\ \E c \in Events(i), ids \in NodeIds :
       /\ IsPullRequest(ids)
       /\ inv' = [inv EXCEPT ![i] =
            [@ EXCEPT !.pc = "done",
                      !.config = c,
                      !.ids = ids,
                      !.result = "skipped",
                      !.after = {j \in Invocations : inv[j].pc = "done"}]]
  /\ UNCHANGED << workItems, autoCreate, nfail >>
  /\ UNCHANGED revVars

\* run for any other event (gitsync.js:35-37): performWork up to the first
\* remote call (gitsync.js:149-186)
performWork(i) ==
  /\ inv[i].pc = "idle"
  /\ \E c \in Events(i), ids \in NodeIds :
       /\ ~IsPullRequest(ids)
       /\ inv' = [inv EXCEPT ![i] =
            [@ EXCEPT !.pc = "query",
                      !.config = c,
                      !.ids = ids,
                      !.builder = Dispatch(c),
                      !.patchDoc = BuilderPatch(Dispatch(c), c),
                      !.caller = FirstCaller(Dispatch(c)),
                      !.after = {j \in Invocations : inv[j].pc = "done"}]]
  /\ UNCHANGED << workItems, autoCreate, nfail >>
  /\ UNCHANGED revVars

(* ------------------------------------------------------- getWorkItem *)

\* Located with createWorkItem going on to create whatever the lookup found
LocatedNoGuard(l, r, auto) ==
  CASE l.caller = "createWorkItem" ->
         [l EXCEPT !.pc = "create", !.nested = FALSE, !.workItem = r]
    [] l.caller = "unlabelWorkItem" ->
         IF r.kind = "null"
         THEN [l EXCEPT !.pc = "done", !.result = "0", !.workItem = r]
         ELSE IF r.kind = "err"
         THEN [l EXCEPT !.pc = "done", !.result = "threw", !.workItem = r]
         ELSE [l EXCEPT !.pc = "query", !.caller = "updateWorkItem",
                        !.workItem = r,
                        !.patchDoc = unlabelWorkItemPatch(l.config, r.tags)]
    [] OTHER ->
         IF r.kind = "null"
         THEN IF auto
              THEN [l EXCEPT !.pc = "create", !.nested = TRUE, !.workItem = r]
              ELSE [l EXCEPT !.pc = "done", !.result = "0", !.workItem = r]
         ELSE [l EXCEPT !.pc = "update", !.workItem = r]

\* Located with updateWorkItem creating the missing item whatever
\* config.ado.autoCreate says
LocatedAlwaysCreate(l, r, auto) ==
  CASE l.caller = "createWorkItem" ->
         IF r.kind # "null"
         THEN [l EXCEPT !.pc = "done", !.result = "0", !.workItem = r]
         ELSE [l EXCEPT !.pc = "create", !.nested = FALSE, !.workItem = r]
    [] l.caller = "unlabelWorkItem" ->
         IF r.kind = "null"
         THEN [l EXCEPT !.pc = "done", !.result = "0", !.workItem = r]
         ELSE IF r.kind = "err"
         THEN [l EXCEPT !.pc = "done", !.result = "threw", !.workItem = r]
         ELSE [l EXCEPT !.pc = "query", !.caller = "updateWorkItem",
                        !.workItem = r,
                        !.patchDoc = unlabelWorkItemPatch(l.config, r.tags)]
    [] OTHER ->
         IF r.kind = "null"
         THEN [l EXCEPT !.pc = "create", !.nested = TRUE, !.workItem = r]
         ELSE [l EXCEPT !.pc = "update", !.workItem = r]

\* what the caller of getWorkItem does with its result r
\* createWorkItem (gitsync.js:271-277), unlabelWorkItem (570-604),
\* updateWorkItem (703-716)
Located(l, r, auto) ==
  CASE l.caller = "createWorkItem" ->
         IF r.kind # "null"
         THEN [l EXCEPT !.pc = "done", !.result = "0", !.workItem = r]
         ELSE [l EXCEPT !.pc = "create", !.nested = FALSE, !.workItem = r]
    [] l.caller = "unlabelWorkItem" ->
         IF r.kind = "null"
         THEN [l EXCEPT !.pc = "done", !.result = "0", !.workItem = r]
         ELSE IF r.kind = "err"
         THEN [l EXCEPT !.pc = "done", !.result = "threw", !.workItem = r]
         ELSE [l EXCEPT !.pc = "query", !.caller = "updateWorkItem",
                        !.workItem = r,
                        !.patchDoc = unlabelWorkItemPatch(l.config, r.tags)]
    [] OTHER ->
         IF r.kind = "null"
         THEN IF auto
              THEN [l EXCEPT !.pc = "create", !.nested = TRUE, !.workItem = r]
              ELSE [l EXCEPT !.pc = "done", !.result = "0", !.workItem = r]
         ELSE [l EXCEPT !.pc = "update", !.workItem = r]

\* getWorkItem: connecting and queryByWiql (gitsync.js:201-250, 262-265)
getWorkItemQuery(i) ==
  /\ inv[i].pc = "query"
  /\ LET l == [inv[i] EXCEPT !.calls = Append(@, Call("queryByWiql", 0, << >>))]
         id == FirstMatch(workItems, l.config)
     IN \/ /\ id = 0
           /\ inv' = [inv EXCEPT ![i] = Located(l, NullItem, autoCreate)]
           /\ UNCHANGED nfail
        \/ /\ id # 0
           /\ inv' = [inv EXCEPT ![i] = [l EXCEPT !.pc = "fetch", !.hit = id]]
           /\ UNCHANGED nfail
        \/ \* no connection, a failing query, or a null result: -1
           /\ nfail < MaxFailures
           /\ nfail' = nfail + 1
           /\ inv' = [inv EXCEPT ![i] =
                Located([l EXCEPT !.failed = TRUE], ErrItem, autoCreate)]
  /\ UNCHANGED << workItems, autoCreate >>
  /\ UNCHANGED revVars

\* getWorkItem: fetching the matched item (gitsync.js:252-261)
getWorkItemFetch(i) ==
  /\ inv[i].pc = "fetch"
  /\ LET l == [inv[i] EXCEPT
                 !.calls = Append(@, Call("getWorkItem", inv[i].hit, << >>))]
     IN \/ /\ inv' = [inv EXCEPT ![i] =
                Located(l, FoundItem(l.hit, workItems[l.hit]), autoCreate)]
           /\ UNCHANGED nfail
        \/ /\ nfail < MaxFailures
           /\ nfail' = nfail + 1
           /\ inv' = [inv EXCEPT ![i] =
                Located([l EXCEPT !.failed = TRUE], ErrItem, autoCreate)]
  /\ UNCHANGED << workItems, autoCreate >>
  /\ UNCHANGED revVars

(* ---------------------------------------- createWorkItem, updateWorkItem *)

\* Created with a failed creation sent back to the call
CreatedRetry(l, r) ==
  IF r.kind = "err" THEN [l EXCEPT !.pc = "create"]
  ELSE IF l.nested THEN [l EXCEPT !.pc = "update", !.workItem = r]
  ELSE [l EXCEPT !.pc = "done", !.workItem = r, !.result = "item"]

\* what follows createWorkItem's return value r: its caller is performWork,
\* or updateWorkItem's auto-create (gitsync.js:709, 718)
Created(l, r) ==
  IF l.nested THEN [l EXCEPT !.pc = "update", !.workItem = r]
  ELSE [l EXCEPT !.pc = "done", !.workItem = r,
                 !.result = IF r.kind = "item" THEN "item" ELSE "-1"]

\* createWorkItem after the lookup (gitsync.js:279-405)
createWorkItem(i) ==
  /\ inv[i].pc = "create"
  /\ LET patchDoc == createWorkItemPatch(inv[i].config)
         l == [inv[i] EXCEPT !.calls = Append(@, Call("createWorkItem", 0, patchDoc))]
         wi == ApplyPatch(EmptyItem, patchDoc)
     IN \/ /\ workItems' = Append(workItems, wi)
           /\ inv' = [inv EXCEPT ![i] =
                Created(l, FoundItem(Len(workItems) + 1, wi))]
           /\ UNCHANGED nfail
        \/ \* a null result or an exception of the call: -1
           /\ nfail < MaxFailures
           /\ nfail' = nfail + 1
           /\ inv' = [inv EXCEPT ![i] = Created([l EXCEPT !.failed = TRUE], ErrItem)]
           /\ UNCHANGED workItems
        \/ \* getWorkItemTrackingApi throws outside the try (gitsync.js:378)
           /\ nfail < MaxFailures
           /\ nfail' = nfail + 1
           /\ inv' = [inv EXCEPT ![i] = [@ EXCEPT !.pc = "done", !.result = "threw"]]
           /\ UNCHANGED workItems
  /\ UNCHANGED autoCreate
  /\ UNCHANGED revVars

\* updateWorkItem after the lookup (gitsync.js:718-740). workItem.id of a
\* failed lookup or creation (-1) is undefined: the service has no such item
\* and the call fails.
updateWorkItem(i) ==
  /\ inv[i].pc = "update"
  /\ LET l == [inv[i] EXCEPT
                 !.calls = Append(@, Call("updateWorkItem", inv[i].workItem.id,
                                          inv[i].patchDoc))]
     IN \/ /\ l.workItem.kind = "item"
           /\ workItems' = [workItems EXCEPT ![l.workItem.id] =
                              ApplyPatch(@, l.patchDoc)]
           /\ inv' = [inv EXCEPT ![i] = [l EXCEPT !.pc = "done", !.result = "item"]]
           /\ UNCHANGED nfail
        \/ /\ l.workItem.kind = "err"
           /\ inv' = [inv EXCEPT ![i] =
                [l EXCEPT !.pc = "done", !.result = "-1", !.failed = TRUE]]
           /\ UNCHANGED << workItems, nfail >>
        \/ /\ l.workItem.kind = "item"
           /\ nfail < MaxFailures
           /\ nfail' = nfail + 1
           /\ inv' = [inv EXCEPT ![i] =
                [l EXCEPT !.pc = "done", !.result = "-1", !.failed = TRUE]]
           /\ UNCHANGED workItems
        \/ \* getWorkItemTrackingApi throws outside the try (gitsync.js:719)
           /\ nfail < MaxFailures
           /\ nfail' = nfail + 1
           /\ inv' = [inv EXCEPT ![i] = [@ EXCEPT !.pc = "done", !.result = "threw"]]
           /\ UNCHANGED workItems
  /\ UNCHANGED autoCreate
  /\ UNCHANGED revVars

Next ==
  \E i \in Invocations :
    \/ run(i)
    \/ performWork(i)
    \/ getWorkItemQuery(i)
    \/ getWorkItemFetch(i)
    \/ createWorkItem(i)
    \/ updateWorkItem(i)

Spec == Init /\ [][Next]_vars


(* ------------------------------------------------------------ claims *)

\* the join key the create path writes for the issue of an event
JoinKey(config) ==
  IssueTagPrefix \o config.number \o Semi \o RepoTagPrefix \o config.repo \o Semi

\* the work items carrying the join-key tags of the event's issue
Counterparts(config) ==
  {id \in 1..Len(workItems) : includes(workItems[id].tags, JoinKey(config))}

\* the calls of one kind an invocation has issued
CallsOf(i, name) ==
  {k \in 1..Len(inv[i].calls) : inv[i].calls[k].call = name}

NoMirrorWrite(i) ==
  CallsOf(i, "createWorkItem") = {} /\ CallsOf(i, "updateWorkItem") = {}

\* j ran the create path for the issue i had run it for, after i had
\* finished, and no remote call failed
CreatedTwice(i, j) ==
  /\ i # j
  /\ inv[i].pc = "done" /\ inv[j].pc = "done"
  /\ i \in inv[j].after
  /\ inv[i].builder = "createWorkItem" /\ inv[j].builder = "createWorkItem"
  /\ inv[i].config.number = inv[j].config.number
  /\ inv[i].config.repo = inv[j].config.repo
  /\ nfail = 0

\* C1: the create path run twice in sequence for one (repository, issue
\* number), with no remote failure, leaves exactly one work item carrying the
\* issue's join-key tags; the second run returns 0 and issues neither a
\* createItem nor an updateItem call.
C1_IdempotentCreation ==
  \A i, j \in Invocations :
    CreatedTwice(i, j) =>
      /\ Cardinality(Counterparts(inv[j].config)) = 1
      /\ inv[j].result = "0"
      /\ NoMirrorWrite(j)

\* the first of the two runs created the item the second one found
C1_Witness ==
  \E i, j \in Invocations :
    /\ CreatedTwice(i, j)
    /\ inv[i].result = "item"
    /\ CallsOf(i, "createWorkItem") # {}
    /\ inv[j].result = "0"

\* C2: whatever the interleaving of two invocations on one (repository,
\* issue number), the mirror service never holds more than one work item
\* tagged with that issue number and repository.
C2_UniqueCounterpart ==
  \A i \in Invocations :
    inv[i].pc # "idle" => Cardinality(Counterparts(inv[i].config)) <= 1

\* the delete mutation: the configured 'deleted' state, the fixed resolution
\* reason and one history entry
IsDeleteMutation(patchDoc) ==
  /\ Len(patchDoc) = 3
  /\ patchDoc[1].path = "System.State"
  /\ patchDoc[1].value = "Removed"
  /\ patchDoc[2].path = "IntuneAgile.ResolutionReason"
  /\ patchDoc[2].value = "Won't Fix"
  /\ patchDoc[3].path = "System.History"
  /\ \A k \in 1..3 : patchDoc[k].op = "add"

\* the issue of the event performWork handles carries the exclude label, in
\* any letter case
Excluded(i) ==
  /\ inv[i].pc # "idle"
  /\ ~IsPullRequest(inv[i].ids)
  /\ inv[i].config.labels.present
  /\ \E k \in 1..Len(inv[i].config.labels.names) :
       inv[i].config.labels.names[k] \in {ExcludeLabel, NoAdoMixed}

\* C9: when the issue carries the exclude label, performWork builds the
\* delete mutation whatever the event's action is, and the builder of the
\* action is never run.
C9_ExcludeOverride ==
  \A i \in Invocations :
    Excluded(i) =>
      /\ inv[i].builder = "deleteWorkItem"
      /\ IsDeleteMutation(inv[i].patchDoc)

C9_Witness ==
  \E i \in Invocations :
    /\ Excluded(i)
    /\ inv[i].config.action = "labeled"
    /\ inv[i].pc = "done"
    /\ inv[i].builder = "deleteWorkItem"

\* C10 as claimed: when the issue carries the exclude label no createItem
\* and no updateItem call is issued, and the run completes successfully
\* (here: even when no remote call fails).
C10_NoMutationWhenExcluded ==
  \A i \in Invocations :
    (Excluded(i) /\ nfail = 0) => (NoMirrorWrite(i) /\ ~inv[i].failed)

\* C10 as amended: when the issue carries the exclude label, every
\* updateItem call carries the delete mutation; a createItem call is issued
\* only with auto-create on, right after a query that matched nothing; with
\* auto-create off and no counterpart no mirror write is issued and the
\* result is 0; and a run in which no remote call fails is not marked failed.
C10_OnlyDeleteWhenExcluded ==
  \A i \in Invocations :
    Excluded(i) =>
      /\ \A k \in CallsOf(i, "updateWorkItem") :
           IsDeleteMutation(inv[i].calls[k].patchDoc)
      /\ \A k \in CallsOf(i, "createWorkItem") :
           /\ autoCreate
           /\ k = 2
           /\ inv[i].calls[1].call = "queryByWiql"
      /\ (inv[i].pc = "done" /\ ~autoCreate /\ inv[i].workItem.kind = "null")
           => (inv[i].result = "0" /\ NoMirrorWrite(i))
      /\ nfail = 0 => ~inv[i].failed /\ inv[i].result \in {"", "0", "item"}

\* an excluded event has patched its located counterpart
C10_Witness ==
  \E i \in Invocations :
    /\ Excluded(i)
    /\ inv[i].pc = "done"
    /\ inv[i].result = "item"
    /\ CallsOf(i, "createWorkItem") = {}
    /\ \E k \in CallsOf(i, "updateWorkItem") :
         workItems[inv[i].calls[k].id].state = "Removed"

\* the remote calls of an invocation: none
NoRemoteCall(i) == inv[i].calls = << >>

\* the event of an invocation is that of a pull request: a node id of its
\* item, under either spelling, begins with P, R, _
PullRequestEvent(i) ==
  \E id \in {inv[i].ids.node_id, inv[i].ids.nodeId} :
    Len(id) >= 3 /\ id[1] = "P" /\ id[2] = "R" /\ id[3] = "_"

\* C11: when the item of the event is a pull request (its node id starts
\* with "PR_"), run makes no remote call (no locator query, no createItem, no
\* updateItem) and completes without marking the run failed, whatever the
\* event's action is.
C11_PullRequestSkipped ==
  \A i \in Invocations :
    (inv[i].pc # "idle" /\ PullRequestEvent(i)) =>
      /\ inv[i].pc = "done"
      /\ NoRemoteCall(i)
      /\ ~inv[i].failed
      /\ inv[i].result = "skipped"

\* a 'labeled' event of a pull request, its id under nodeId, was skipped
\* after the other invocation had created a work item
C11_Witness ==
  \E i, j \in Invocations :
    /\ inv[i].pc = "done"
    /\ inv[i].ids.nodeId = <<"P","R","_","k">>
    /\ inv[i].config.action = "labeled"
    /\ NoRemoteCall(i)
    /\ j \in inv[i].after
    /\ CallsOf(j, "createWorkItem") # {}

\* the locator of a finished event other than 'opened' found no counterpart,
\* and no remote call failed
NotFound(i) ==
  /\ inv[i].pc = "done"
  /\ ~IsPullRequest(inv[i].ids)
  /\ inv[i].config.action # "opened"
  /\ nfail = 0
  /\ inv[i].calls # << >>
  /\ inv[i].calls[1].call = "queryByWiql"
  /\ (inv[i].workItem.kind = "null" \/ inv[i].nested)

\* the mutation set of the event's builder
EventMutation(i) == BuilderPatch(inv[i].builder, inv[i].config)

\* C12: for every event other than create whose locator finds no
\* counterpart: with auto-create on, exactly one createItem is issued,
\* followed by one updateItem carrying the event's mutation set against the
\* created item; with auto-create off, no mirror write is issued and the
\* result is 0.
C12_NotFoundPolicy ==
  \A i \in Invocations :
    NotFound(i) =>
      IF autoCreate
      THEN /\ Cardinality(CallsOf(i, "createWorkItem")) = 1
           /\ Cardinality(CallsOf(i, "updateWorkItem")) = 1
           /\ \A c \in CallsOf(i, "createWorkItem"), u \in CallsOf(i, "updateWorkItem") :
                /\ c < u
                /\ inv[i].calls[u].id = inv[i].workItem.id
                /\ inv[i].workItem.kind = "item"
                /\ inv[i].calls[u].patchDoc = EventMutation(i)
      ELSE NoMirrorWrite(i) /\ inv[i].result = "0"

\* the locator of a finished event returned -1: its query or its fetch
\* failed, and no creation was attempted
LocatorFailed(i) ==
  /\ inv[i].pc = "done"
  /\ inv[i].workItem.kind = "err"
  /\ CallsOf(i, "createWorkItem") = {}

\* C13: whenever the locator fails, the operation that called it (the
\* create path and every update path) returns -1 and the run is marked
\* failed; the failure is never reported as 'already exists' (0) or success.
C13_LocatorFailureSurfaced ==
  \A i \in Invocations :
    LocatorFailed(i) => (inv[i].result = "-1" /\ inv[i].failed)

\* the createItem and updateItem calls an invocation has issued
Writes(i) == CallsOf(i, "createWorkItem") \cup CallsOf(i, "updateWorkItem")

\* C14: in the processing of one event, once a configuration or transport
\* error has occurred in the locator or in an auto-create, no createItem or
\* updateItem call is issued afterwards.
C14_NoMutationAfterFailure ==
  [][ \A i \in Invocations : inv[i].failed => Writes(i)' = Writes(i) ]_vars


\* invocation i ran the builder of its event's action on the work item of
\* issue #4 and its update was accepted
Applied(i, action) ==
  /\ inv[i].pc = "done"
  /\ inv[i].config.action = action
  /\ inv[i].builder = ActionBuilder(action)
  /\ inv[i].config.number = <<"4">>
  /\ inv[i].result = "item"
  /\ CallsOf(i, "createWorkItem") = {}

\* C25: when an 'unlabeled' event for label A and a 'labeled' event for
\* label B on the same issue are processed by two invocations in any
\* interleaving, the work item's final tag field contains B's tag and does
\* not contain A's tag.
C25_NoLostTagUpdate ==
  \A i, j \in Invocations :
    ( /\ Applied(i, "unlabeled")
      /\ Applied(j, "labeled")
      /\ inv[i].config.label # inv[j].config.label
      /\ nfail = 0 )
    => \A id \in Counterparts(inv[i].config) :
         /\ includes(workItems[id].tags,
                     LabelTagPrefix \o inv[j].config.label \o Semi)
         /\ ~includes(workItems[id].tags,
                      LabelTagPrefix \o inv[i].config.label \o Semi)


(* ------------------------------------------------- Reverse Reconciler *)

\* String.prototype.split on a one-character separator: the pieces between
\* consecutive separators
split(s, c) ==
  LET seps == {i \in 1..Len(s) : s[i] = c}
      n == Cardinality(seps)
      pos(k) == IF k = 0 THEN 0
                ELSE IF k = n + 1 THEN Len(s) + 1
                ELSE CHOOSE i \in seps : Cardinality({j \in seps : j < i}) = k - 1
  IN [k \in 1..(n + 1) |-> SubSeq(s, pos(k - 1) + 1, pos(k) - 1)]

\* tags.split(";").find(x => x.includes("GitHub Issue #")); << >> when no
\* piece includes it
FindIssueTag(pieces) ==
  IF \E k \in 1..Len(pieces) : includes(pieces[k], IssueTagPrefix)
  THEN pieces[CHOOSE k \in 1..Len(pieces) :
                /\ includes(pieces[k], IssueTagPrefix)
                /\ \A h \in 1..(k - 1) : ~includes(pieces[h], IssueTagPrefix)]
  ELSE << >>

\* piece?.split("#")[1]
AfterHash(piece) ==
  IF piece = << >> THEN << >> ELSE split(piece, "#")[2]

\* the issue number updateIssue reads from the tags (gitsync.js:823-826);
\* << >> when there is none. Each step's result is bound before the next
\* step reads it.
IssueNumberOf(tags) ==
  CHOOSE number \in
    { AfterHash(piece) :
        piece \in { FindIssueTag(pieces) : pieces \in { split(tags, ";") } } } :
    TRUE

\* deriveStateKey with the last such key for the first
deriveStateKeyLast(states, value) ==
  IF \E i \in 1..Len(states) : states[i].v = value
  THEN states[CHOOSE i \in 1..Len(states) :
                /\ states[i].v = value
                /\ \A j \in (i + 1)..Len(states) : states[j].v # value].k
  ELSE UNDEFINED

\* Object.keys(states).find(k => states[k] === value) (gitsync.js:879-882)
deriveStateKey(states, value) ==
  IF \E i \in 1..Len(states) : states[i].v = value
  THEN states[CHOOSE i \in 1..Len(states) :
                /\ states[i].v = value
                /\ \A j \in 1..(i - 1) : states[j].v # value].k
  ELSE UNDEFINED

\* objectFlip (gitsync.js:795-801): every value becomes a key, the last
\* writer's key its value
objectFlip(obj) ==
  [ i \in 1..Len(obj) |->
      [ k |-> obj[i].v,
        v |-> obj[CHOOSE j \in 1..Len(obj) :
                    /\ obj[j].v = obj[i].v
                    /\ \A h \in (j + 1)..Len(obj) : obj[h].v # obj[i].v].k ] ]

\* ghAssignedTo (gitsync.js:897-901); << >> is null or undefined
ghAssignedTo(handles, assignedTo) ==
  IF assignedTo # << >>
  THEN HandleValue(objectFlip(handles), toLowerCase(assignedTo))
  ELSE << >>

\* the candidate origin values (gitsync.js:872-901)
Candidate(config, wiObj) ==
  [ title |-> wiObj.title,
    body |-> makeMarkdown(wiObj.desc),
    state |-> deriveStateKey(config.states, wiObj.state),
    assignee |-> ghAssignedTo(config.handles, wiObj.assignedTo) ]

\* IsFresher with >= for >
IsFresherOrEqual(wiObj, issue) ==
  /\ wiObj.changed >= issue.updated_at
  /\ ~HasExcludeLabel(issue.labels)

\* IsFresher without the exclude-label test
IsFresherAnyLabel(wiObj, issue) ==
  wiObj.changed > issue.updated_at

\* the freshness test (gitsync.js:858-862)
IsFresher(wiObj, issue) ==
  /\ wiObj.changed > issue.updated_at
  /\ ~HasExcludeLabel(issue.labels)

\* Differs with the assignees compared as written
DiffersCaseSensitive(cand, issue) ==
  \/ cand.title # issue.title
  \/ cand.body # issue.body
  \/ cand.state # issue.state
  \/ cand.assignee # issue.assignee

\* the equality guard (gitsync.js:906-911)
Differs(cand, issue) ==
  \/ cand.title # issue.title
  \/ cand.body # issue.body
  \/ cand.state # issue.state
  \/ toLowerCase(cand.assignee) # toLowerCase(issue.assignee)

\* the payload of octokit.rest.issues.update (gitsync.js:912-920)
UpdatePayload(issue_number, cand) ==
  [ issue_number |-> issue_number, title |-> cand.title, body |-> cand.body,
    state |-> cand.state,
    assignees |-> IF cand.assignee # << >> THEN << cand.assignee >> ELSE << >> ]

\* a time later than every timestamp recorded so far
Now == 1 + (IF mirror.changed > origin.updated_at THEN mirror.changed
            ELSE origin.updated_at)

\* GitHub accepts an update whose state is absent, "open" or "closed"
Acceptable(payload) == payload.state \in {UNDEFINED, "open", "closed"}

\* the issue after an accepted update
Updated(issue, payload, now) ==
  [ issue EXCEPT
      !.title = payload.title,
      !.body = payload.body,
      !.state = IF payload.state = UNDEFINED THEN @ ELSE payload.state,
      !.assignee = IF payload.assignees = << >> THEN << >>
                   ELSE payload.assignees[1],
      !.updated_at = now ]

\* the event GitHub raises for an accepted update: the issue closes, or it
\* is edited
EventOf(issue, payload) ==
  IF payload.state = "closed" /\ issue.state # "closed" THEN "closed"
  ELSE "edited"

RevStart(wi, issue) ==
  [ pc |-> "getWorkItem", wiObj |-> wi, issue_number |-> << >>,
    issue |-> issue, cand |-> Candidate(ado, wi), updates |-> << >>,
    result |-> "" ]

\* updateIssue: client.getWorkItem and the issue number (gitsync.js:813-837)
updateIssueGetWorkItem ==
  /\ rv.pc = "getWorkItem"
  /\ \/ /\ rv' = [rv EXCEPT
                    !.wiObj = mirror,
                    !.issue_number = IssueNumberOf(mirror.tags),
                    !.pc = IF IssueNumberOf(mirror.tags) = << >> THEN "done"
                           ELSE "getIssue",
                    !.result = IF IssueNumberOf(mirror.tags) = << >> THEN "null"
                               ELSE ""]
        /\ UNCHANGED nfail
     \/ \* the call fails: the promise is rejected
        /\ nfail < MaxFailures
        /\ nfail' = nfail + 1
        /\ rv' = [rv EXCEPT !.pc = "done", !.result = "rejected"]
  /\ UNCHANGED << mirror, origin, ado, pending >>
  /\ UNCHANGED << workItems, autoCreate, inv, trip >>

\* updateIssue: octokit.rest.issues.get, the freshness test, the candidate
\* values and the equality guard (gitsync.js:839-911, 931-950)
updateIssueGetIssue ==
  /\ rv.pc = "getIssue"
  /\ \/ /\ rv.issue_number = origin.number
        /\ LET cand == Candidate(ado, rv.wiObj)
           IN rv' = [rv EXCEPT
                       !.issue = origin,
                       !.cand = cand,
                       !.pc = IF IsFresher(rv.wiObj, origin) /\ Differs(cand, origin)
                              THEN "update" ELSE "done",
                       !.result = IF IsFresher(rv.wiObj, origin) /\ Differs(cand, origin)
                                  THEN "" ELSE "null"]
        /\ UNCHANGED nfail
     \/ \* the call fails: the promise is rejected
        /\ nfail < MaxFailures
        /\ nfail' = nfail + 1
        /\ rv' = [rv EXCEPT !.pc = "done", !.result = "rejected"]
  /\ UNCHANGED << mirror, origin, ado, pending >>
  /\ UNCHANGED << workItems, autoCreate, inv, trip >>

\* updateIssue: octokit.rest.issues.update (gitsync.js:912-930)
updateIssueUpdate ==
  /\ rv.pc = "update"
  /\ LET payload == UpdatePayload(rv.issue_number, rv.cand)
         l == [rv EXCEPT !.updates = Append(@, payload), !.pc = "done"]
     IN \/ /\ Acceptable(payload)
           /\ origin' = Updated(origin, payload, Now)
           /\ rv' = [l EXCEPT !.result = "result"]
           /\ pending' = Append(pending, EventOf(origin, payload))
           /\ UNCHANGED nfail
        \/ \* GitHub refuses the state: the promise is rejected
           /\ ~Acceptable(payload)
           /\ rv' = [l EXCEPT !.result = "rejected"]
           /\ UNCHANGED << origin, pending, nfail >>
        \/ \* the call fails: the promise is rejected
           /\ nfail < MaxFailures
           /\ nfail' = nfail + 1
           /\ rv' = [l EXCEPT !.result = "rejected"]
           /\ UNCHANGED << origin, pending >>
  /\ UNCHANGED << mirror, ado >>
  /\ UNCHANGED << workItems, autoCreate, inv, trip >>

(* ------------------------------------------------ reverse path: inputs *)

\* timestamps of the reverse model's initial states
MaxTime == 2

AlUpper == <<"A","L">>
AlPrincipalMixed == <<"A","l","@","x">>

MirrorItems ==
  { [ EmptyItem EXCEPT !.title = t, !.desc = d, !.repro = d, !.state = st,
                       !.assignedTo = who, !.tags = tg ] :
      t \in {"T", "T2"}, d \in {"<p><em>x</em></p>", "<p>y</p>"},
      st \in {"New", "Closed", "Active"},
      who \in { << >>, AlPrincipal, AlPrincipalMixed },
      tg \in { IssueTagPrefix \o <<"4">> \o Semi \o RepoTagPrefix \o Repo \o Semi,
               RepoTagPrefix \o Repo \o Semi } }

Issues ==
  { [ number |-> <<"4">>, title |-> "T", body |-> b, state |-> st,
      labels |-> ls, assignee |-> who, updated_at |-> t ] :
      b \in {"*x*", "_x_"}, st \in {"open", "closed"},
      ls \in { Labels(<< >>), Labels(<< Bug, NoAdoMixed >>) },
      who \in { << >>, Al, AlUpper }, t \in 0..MaxTime }

\* config.ado: the handle table with its principals in lower case, or with
\* one of them in mixed case
AdoConfigs ==
  { [ states |-> ConfiguredStates,
      handles |-> << [k |-> Al, v |-> AlPrincipal] >> ],
    [ states |-> ConfiguredStates,
      handles |-> << [k |-> Al, v |-> AlPrincipalMixed],
                     [k |-> <<"b","o">>, v |-> <<"b","o","@","x">>] >> ] }

FwdIdle ==
  /\ workItems = << >>
  /\ autoCreate = FALSE
  /\ inv = [i \in Invocations |-> IdleInvocation]
  /\ nfail = 0

InitRev ==
  /\ FwdIdle
  /\ ado \in AdoConfigs
  /\ \E wi \in MirrorItems, t \in 0..MaxTime :
       mirror = [ f \in DOMAIN wi \cup {"changed"} |->
                    IF f = "changed" THEN t ELSE wi[f] ]
  /\ origin \in Issues
  /\ rv = RevStart(mirror, origin)
  /\ pending = << >>
  /\ trip = << >>

NextRev ==
  \/ updateIssueGetWorkItem
  \/ updateIssueGetIssue
  \/ updateIssueUpdate

SpecRev == InitRev /\ [][NextRev]_vars


(* ------------------------------------------------ reverse path: claims *)

\* updateIssue has fetched the work item and the issue and has gone past
\* its two tests
Decided ==
  \/ rv.pc = "update"
  \/ /\ rv.pc = "done"
     /\ rv.issue_number # << >>
     /\ (rv.updates # << >> \/ rv.result = "null")

\* an origin update is being issued or has been issued
Issued == rv.pc = "update" \/ rv.updates # << >>

\* the fetched issue carries the exclude label, in some letter case
IssueExcluded ==
  \E k \in 1..Len(rv.issue.labels.names) :
    rv.issue.labels.names[k] \in {ExcludeLabel, NoAdoMixed}

\* the candidate values are the issue's, the assignee up to letter case
CandidateEqualsIssue ==
  /\ rv.cand.title = rv.issue.title
  /\ rv.cand.body = rv.issue.body
  /\ rv.cand.state = rv.issue.state
  /\ toLowerCase(rv.cand.assignee) = toLowerCase(rv.issue.assignee)

\* C3 as claimed: updateIssue issues an origin update if and only if the
\* work item's change-timestamp is strictly later than the issue's
\* update-timestamp.
C3_UpdateIffFresher ==
  Decided => (Issued <=> rv.wiObj.changed > rv.issue.updated_at)

\* C3 as amended: an origin update is issued only if the work item's
\* change-timestamp is strictly later than the issue's update-timestamp,
\* never when the two are equal or the issue's is later; with a strictly
\* later change-timestamp it is issued exactly when the issue also lacks the
\* exclude label and a candidate value differs from the issue's.
C3_UpdateOnlyIfFresher ==
  Decided =>
    /\ Issued => rv.wiObj.changed > rv.issue.updated_at
    /\ rv.wiObj.changed > rv.issue.updated_at =>
         (Issued <=> (~IssueExcluded /\ ~CandidateEqualsIssue))

\* equal timestamps, differing values, no exclude label: no update
C3_Witness ==
  /\ Decided
  /\ rv.pc = "done"
  /\ rv.wiObj.changed = rv.issue.updated_at
  /\ ~IssueExcluded
  /\ rv.cand.title # rv.issue.title
  /\ ~Issued

\* C4: when the fetched issue carries the exclude label, in any letter
\* case, no origin update is issued, whatever the timestamps and the work
\* item's fields.
C4_ExcludeBlocksReverse ==
  (Decided /\ IssueExcluded) => ~Issued

C4_Witness ==
  /\ Decided
  /\ rv.pc = "done"
  /\ IssueExcluded
  /\ rv.wiObj.changed > rv.issue.updated_at
  /\ ~CandidateEqualsIssue
  /\ ~Issued

\* C5: when the candidate title, body and state equal the issue's and the
\* candidate assignee equals the issue's up to letter case, no origin update
\* is issued, however fresh the work item is.
C5_EqualityGuard ==
  (Decided /\ CandidateEqualsIssue) => ~Issued

\* a fresher work item whose candidate assignee differs from the issue's in
\* letter case only
C5_Witness ==
  /\ Decided
  /\ rv.pc = "done"
  /\ CandidateEqualsIssue
  /\ rv.cand.assignee # << >>
  /\ rv.cand.assignee # rv.issue.assignee
  /\ rv.wiObj.changed > rv.issue.updated_at
  /\ ~IssueExcluded
  /\ ~Issued

\* the fetched work item only mirrors the fetched issue: its title,
\* description and assignee are what the forward path writes for the issue's
\* values, it changed after the issue was last updated, the issue is open
\* and the work item's state is the type's default or the 'reopened' value
OnlyMirrors ==
  /\ rv.wiObj.title = rv.issue.title
  /\ rv.wiObj.desc = makeHtml(rv.issue.body)
  /\ rv.wiObj.assignedTo =
       (IF rv.issue.assignee = << >> THEN << >>
        ELSE HandleValue(ado.handles, rv.issue.assignee))
  /\ rv.wiObj.changed > rv.issue.updated_at
  /\ rv.issue.state = "open"
  /\ rv.wiObj.state \in {EmptyItem.state, StateValue(ado.states, "reopened")}

\* C19: for a work item that was last changed by the forward path and only
\* mirrors its open issue, updateIssue issues no origin update, whether the
\* mirror state is the default (unmapped) state or the 'reopened' value.
C19_NoWriteForMirrorImage ==
  (Decided /\ OnlyMirrors) => ~Issued

\* the entries of the handle table whose principal is the work item's
\* assignee up to letter case
HandlesOfAssignee ==
  { k \in 1..Len(ado.handles) :
      /\ rv.wiObj.assignedTo # << >>
      /\ toLowerCase(ado.handles[k].v) = toLowerCase(rv.wiObj.assignedTo) }

\* C20: for a handle table that is a bijection and maps handle h to
\* principal p, a work item assigned to p up to letter case has the candidate
\* origin assignee h, for every letter-casing of p in the configuration.
C20_ReverseAssigneeAnyCase ==
  Decided =>
    \A k \in HandlesOfAssignee : rv.cand.assignee = ado.handles[k].k


(* ------------------------------------------- state table: there and back *)

StateKeys == {"closed", "deleted", "reopened"}
MirrorStates == {"Closed", "Removed", "Active"}

\* the state tables: the three keys in any order, each with a mirror state
StateTables ==
  { << [k |-> k1, v |-> v1], [k |-> k2, v |-> v2], [k |-> k3, v |-> v3] >> :
      k1 \in StateKeys, k2 \in StateKeys, k3 \in StateKeys,
      v1 \in MirrorStates, v2 \in MirrorStates, v3 \in MirrorStates }

\* a table names every key once
WellFormed(states) == {states[i].k : i \in 1..Len(states)} = StateKeys

\* the event of issue #4 whose fields the builders below read
BaseConfig ==
  CHOOSE c \in Configs :
    /\ Relevant(c) /\ c.action = "edited" /\ c.number = <<"4">>
    /\ c.labels = Labels(<< Bug >>)

\* the builder that writes states[key] (gitsync.js:416, 446, 478)
StateBuilder(key) ==
  CASE key = "closed" -> "closeWorkItem"
    [] key = "deleted" -> "deleteWorkItem"
    [] OTHER -> "reopenWorkItem"

InitStates ==
  /\ FwdIdle
  /\ ado \in { [ states |-> t, handles |-> << >> ] :
                 t \in {x \in StateTables : WellFormed(x)} }
  /\ mirror = EmptyItem
  /\ origin = << >>
  /\ rv = << >>
  /\ pending = << >>
  /\ trip = [pc |-> "start", key |-> "", back |-> ""]

\* closeWorkItem, deleteWorkItem or reopenWorkItem patches the work item
WriteState(key) ==
  /\ trip.pc = "start"
  /\ mirror' = ApplyPatch(mirror,
                 BuilderPatch(StateBuilder(key),
                              [BaseConfig EXCEPT !.states = ado.states]))
  /\ trip' = [trip EXCEPT !.pc = "written", !.key = key]
  /\ UNCHANGED << fwdVars, origin, ado, rv, pending >>

\* updateIssue derives the state key of the work item (gitsync.js:879-882)
ReadState ==
  /\ trip.pc = "written"
  /\ trip' = [trip EXCEPT !.pc = "derived",
                          !.back = deriveStateKey(ado.states, mirror.state)]
  /\ UNCHANGED << fwdVars, mirror, origin, ado, rv, pending >>

NextStates ==
  \/ \E key \in StateKeys : WriteState(key)
  \/ ReadState

SpecStates == InitStates /\ [][NextStates]_vars

\* no two keys of the table have the same mirror state
Injective(states) ==
  \A i, j \in 1..Len(states) : states[i].v = states[j].v => i = j

\* C7 as claimed: for every key k of the state table, states[k] mapped back
\* by updateIssue's reverse lookup is k, also when two keys have the same
\* mirror state.
C7_RoundTrip ==
  trip.pc = "derived" => trip.back = trip.key

\* C7 as amended: states[k] mapped back is the first key, in the table's
\* order, whose mirror state is states[k]; it is k for every key of a table
\* whose mirror states are pairwise distinct.
C7_RoundTripFirstKey ==
  trip.pc = "derived" =>
    /\ \E i \in 1..Len(ado.states) :
         /\ ado.states[i].k = trip.back
         /\ ado.states[i].v = mirror.state
         /\ \A j \in 1..(i - 1) : ado.states[j].v # mirror.state
    /\ \E i \in 1..Len(ado.states) :
         ado.states[i].k = trip.key /\ ado.states[i].v = mirror.state
    /\ Injective(ado.states) => trip.back = trip.key

\* 'deleted' written and read back under a table that lists it last and
\* has distinct mirror states
C7_Witness ==
  /\ trip.pc = "derived"
  /\ Injective(ado.states)
  /\ ado.states[3].k = "deleted"
  /\ trip.key = "deleted"
  /\ trip.back = "deleted"


(* ------------------------------------------------ label: on and off again *)

\* labels a work item's tag string holds before the round trip
MaxLabels == 2

\* a label named like the tag of another label: "GitHub Label: bug"
TagOfBug == LabelTagPrefix \o Bug
Docs == <<"d","o","c","s">>

LabelNames == {Bug, Ui, Docs, TagOfBug}

\* the label lists of at most MaxLabels names
LabelListsUpTo ==
  UNION { [1..n -> LabelNames] : n \in 0..MaxLabels }

InitTags ==
  /\ FwdIdle
  /\ origin = << >>
  /\ ado = << >>
  /\ rv = << >>
  /\ pending = << >>
  /\ \E names \in LabelListsUpTo, L \in {Bug, Ui, Docs} :
       /\ mirror = ApplyPatch(EmptyItem,
                     createWorkItemPatch([BaseConfig EXCEPT !.labels = Labels(names)]))
       /\ trip = [pc |-> "start", names |-> names, L |-> L, T |-> mirror.tags]

\* the 'labeled' event of L: labelWorkItem's patch on the located work item
LabelItem ==
  /\ trip.pc = "start"
  /\ mirror' = ApplyPatch(mirror,
                 labelWorkItemPatch([BaseConfig EXCEPT !.label = trip.L]))
  /\ trip' = [trip EXCEPT !.pc = "labeled"]
  /\ UNCHANGED << fwdVars, origin, ado, rv, pending >>

\* the 'unlabeled' event of L: unlabelWorkItem's patch, built from the tag
\* string of the fetched work item
UnlabelItem ==
  /\ trip.pc = "labeled"
  /\ mirror' = ApplyPatch(mirror,
                 unlabelWorkItemPatch([BaseConfig EXCEPT !.label = trip.L],
                                      mirror.tags))
  /\ trip' = [trip EXCEPT !.pc = "unlabeled"]
  /\ UNCHANGED << fwdVars, origin, ado, rv, pending >>

NextTags == LabelItem \/ UnlabelItem

SpecTags == InitTags /\ [][NextTags]_vars

\* C8: for a tag string T and a label L, 'labeled' L followed by 'unlabeled'
\* L leaves the tag string T, also when T holds tags of other labels whose
\* encoded form contains "GitHub Label: L;" (here: L itself is none of the
\* labels T already holds).
C8_LabelUnlabelRestores ==
  ( /\ trip.pc = "unlabeled"
    /\ \A k \in 1..Len(trip.names) : trip.names[k] # trip.L )
  => mirror.tags = trip.T


(* ------------------------------------------ the builders' mutation sets *)

\* a handle the table does not map, and the default principal
\* config.ado.assignedTo
Bo == <<"b","o">>
DefaultPrincipal == <<"d","@","x">>

BuildLabelLists ==
  { NoLabels, Labels(<< >>), Labels(<< Bug >>), Labels(<< Ui, Bug >>),
    Labels(<< Bug, NoAdoMixed >>) }

\* the events whose mutation sets are built
BuildConfigs ==
  { [ c EXCEPT !.labels = ls, !.closed_at = t, !.assignee = who,
               !.assignedTo = dflt, !.handles = hs ] :
      c \in { x \in Configs : x.label = Bug /\ x.assignee = << >>
                                           /\ x.labels = NoLabels },
      ls \in BuildLabelLists, t \in {"", "2024"}, who \in {<< >>, Al, Bo},
      dflt \in {<< >>, DefaultPrincipal},
      hs \in { << >>, << [k |-> Al, v |-> AlPrincipal] >> } }

\* the patch document of each builder; unlabelWorkItem builds its own from
\* the tags of the work item it fetched
MutationSet(builder, config, tags) ==
  CASE builder = "createWorkItem" -> createWorkItemPatch(config)
    [] builder = "unlabelWorkItem" -> unlabelWorkItemPatch(config, tags)
    [] OTHER -> BuilderPatch(builder, config)

InitBuild ==
  /\ FwdIdle
  /\ mirror = EmptyItem
  /\ origin = << >>
  /\ ado = << >>
  /\ rv = << >>
  /\ pending = << >>
  /\ \E c \in BuildConfigs :
       trip = [pc |-> "start", config |-> c, builder |-> "", patchDoc |-> << >>]

\* performWork picks the builder of the event, which builds its patch
\* document (gitsync.js:149-186)
Build ==
  /\ trip.pc = "start"
  /\ LET c == trip.config
         tags == JoinKey(c) \o createLabels(<< >>, Labels(<< c.label >>))
     IN trip' = [trip EXCEPT !.pc = "built",
                             !.builder = Dispatch(c),
                             !.patchDoc = MutationSet(Dispatch(c), c, tags)]
  /\ UNCHANGED << fwdVars, mirror, origin, ado, rv, pending >>

NextBuild == Build

SpecBuild == InitBuild /\ [][NextBuild]_vars

\* the operations of a patch document on one field
OpsOn(patchDoc, path) ==
  {k \in 1..Len(patchDoc) : patchDoc[k].path = path}

\* C15: the mutation set built for every lifecycle event contains exactly
\* one operation on the history field, and it is an 'add', for every event
\* payload, also a close event whose closed_at is the empty string.
C15_OneHistoryEntry ==
  trip.pc = "built" =>
    /\ Cardinality(OpsOn(trip.patchDoc, "System.History")) = 1
    /\ \A k \in OpsOn(trip.patchDoc, "System.History") :
         trip.patchDoc[k].op = "add"

\* the mirror assignee createWorkItem can resolve: the principal the handle
\* table gives the issue's assignee, or else the default principal
Resolvable(config) ==
  \/ /\ config.assignee # << >>
     /\ \E k \in 1..Len(config.handles) : config.handles[k].k = config.assignee
  \/ config.assignedTo # << >>

\* C18: the create patch of an 'opened' event on issue n of repository r
\* with labels l1..lk (possibly none, or absent) has the tag value
\* "GitHub Issue #n;GitHub Repo: r;" followed by "GitHub Label: li;" for each
\* label in input order, no operation on the state field, and an assignee
\* operation only when a mapped or default assignee is resolvable.
C18_CreatePatchContent ==
  (trip.pc = "built" /\ trip.builder = "createWorkItem") =>
    LET c == trip.config
        names == c.labels.names
    IN /\ Cardinality(OpsOn(trip.patchDoc, "System.Tags")) = 1
       /\ \A k \in OpsOn(trip.patchDoc, "System.Tags") :
            LET pieces == split(trip.patchDoc[k].value, ";")
            IN /\ Len(pieces) = Len(names) + 3
               /\ pieces[1] = IssueTagPrefix \o c.number
               /\ pieces[2] = RepoTagPrefix \o c.repo
               /\ \A h \in 1..Len(names) :
                    pieces[2 + h] = LabelTagPrefix \o names[h]
               /\ pieces[Len(names) + 3] = << >>
       /\ OpsOn(trip.patchDoc, "System.State") = {}
       /\ OpsOn(trip.patchDoc, "System.AssignedTo") # {} <=> Resolvable(c)

\* the create patch of an issue labelled ui, bug whose assignee has no
\* mapping and whose configuration has no default: no assignee operation
C18_Witness ==
  /\ trip.pc = "built"
  /\ trip.builder = "createWorkItem"
  /\ trip.config.labels = Labels(<< Ui, Bug >>)
  /\ trip.config.assignee = Bo
  /\ trip.config.assignedTo = << >>
  /\ OpsOn(trip.patchDoc, "System.AssignedTo") = {}

\* the principal the resolution order names: the mapped one, else the
\* default for a caller that asks for it, else none
ResolutionOrder(config, useDefault) ==
  LET mapped == {k \in 1..Len(config.handles) :
                   config.assignee # << >> /\ config.handles[k].k = config.assignee}
  IN IF mapped # {} THEN config.handles[CHOOSE k \in mapped : TRUE].v
     ELSE IF useDefault /\ config.assignedTo # << >> THEN config.assignedTo
     ELSE << >>

\* the patch document sets the assignee field to who, removes it when who
\* is << >> and removal is TRUE, or leaves it alone
AssigneeOps(patchDoc, who, removal) ==
  LET ops == OpsOn(patchDoc, "System.AssignedTo")
  IN IF who # << >>
     THEN /\ Cardinality(ops) = 1
          /\ \A k \in ops : patchDoc[k].op = "add" /\ patchDoc[k].value = who
     ELSE IF removal
     THEN /\ Cardinality(ops) = 1
          /\ \A k \in ops : patchDoc[k].op = "remove"
     ELSE ops = {}

\* C22: getAssignee gives the mapped principal when the issue has an
\* assignee with an entry in the handle table, otherwise the default when
\* the caller asks for it (createWorkItem) and one is configured, otherwise
\* none, also with no handle table and with no assignee; so the 'assigned'
\* mutation sets the assignee field iff a mapping exists and otherwise
\* removes it, and the 'unassigned' mutation always removes it.
C22_AssigneeResolution ==
  trip.pc = "built" =>
    LET c == trip.config
    IN /\ trip.builder = "createWorkItem" =>
            AssigneeOps(trip.patchDoc, ResolutionOrder(c, TRUE), FALSE)
       /\ trip.builder = "assignWorkItem" =>
            AssigneeOps(trip.patchDoc, ResolutionOrder(c, FALSE), TRUE)
       /\ trip.builder = "unassignWorkItem" =>
            AssigneeOps(trip.patchDoc, << >>, TRUE)

\* an 'assigned' event whose assignee has no mapping, with a default
\* configured: the mutation removes the assignee field
C22_Witness ==
  /\ trip.pc = "built"
  /\ trip.builder = "assignWorkItem"
  /\ trip.config.assignee = Bo
  /\ trip.config.assignedTo = DefaultPrincipal
  /\ \E k \in OpsOn(trip.patchDoc, "System.AssignedTo") :
       trip.patchDoc[k].op = "remove"


(* ------------------------------------- the join key under later events *)

\* forward events that follow the creation of the work item
MaxEvents == 3

\* a label named like the issue tag, and one whose name holds the tag
\* delimiter
IssueTagName == IssueTagPrefix \o <<"4">>
Delimited == <<"x", ";">> \o IssueTagPrefix \o <<"4">>

KeyLabelNames == {Bug, TagOfBug, IssueTagName, Delimited}

LaterActions == Actions \ {"opened"}

InitKey ==
  /\ FwdIdle
  /\ origin = << >>
  /\ ado = << >>
  /\ rv = << >>
  /\ pending = << >>
  /\ mirror = ApplyPatch(EmptyItem, createWorkItemPatch(BaseConfig))
  /\ trip = [events |-> 0, delimited |-> FALSE]

\* one event of the issue: the builder performWork picks, its patch built
\* from the event and (unlabelWorkItem) the fetched tags, applied by
\* updateWorkItem to the located work item (gitsync.js:149-186, 702-742)
LaterEvent ==
  /\ trip.events < MaxEvents
  /\ \E a \in LaterActions, L \in KeyLabelNames :
       LET config == [BaseConfig EXCEPT !.action = a, !.label = L]
       IN /\ a \notin {"labeled", "unlabeled"} => L = Bug
          /\ mirror' = ApplyPatch(mirror,
                          MutationSet(Dispatch(config), config, mirror.tags))
          /\ trip' = [trip EXCEPT
                        !.events = @ + 1,
                        !.delimited = @ \/ (a = "labeled" /\ L = Delimited)]
  /\ UNCHANGED << fwdVars, origin, ado, rv, pending >>

NextKey == LaterEvent

SpecKey == InitKey /\ [][NextKey]_vars

\* the tags of a tag string that are exactly t
TagsEqual(tags, t) ==
  {k \in 1..Len(split(tags, ";")) : split(tags, ";")[k] = t}

\* C16: after any sequence of later forward events for the issue of a
\* created work item, its tag field still contains exactly one
\* "GitHub Issue #n" tag and exactly one "GitHub Repo: r" tag.
C16_JoinKeyInvariant ==
  /\ Cardinality(TagsEqual(mirror.tags, IssueTagPrefix \o BaseConfig.number)) = 1
  /\ Cardinality(TagsEqual(mirror.tags, RepoTagPrefix \o BaseConfig.repo)) = 1


(* ------------------------------------------- the batch of updateIssues *)

\* work items the batch query matches
BatchSize == 2

\* the matched work items, each changed after its issue was last updated
BatchItems ==
  { [ f \in DOMAIN wi \cup {"changed"} |-> IF f = "changed" THEN 1 ELSE wi[f] ] :
      wi \in { x \in MirrorItems : /\ x.desc = "<p><em>x</em></p>"
                                   /\ x.state = "Closed"
                                   /\ x.assignedTo = << >> } }

\* the issue each of them mirrors
BatchIssue ==
  CHOOSE i \in Issues :
    /\ i.body = "*x*" /\ i.state = "closed" /\ i.labels = Labels(<< >>)
    /\ i.assignee = << >> /\ i.updated_at = 0

\* the callback of forEach for one work item, before it has run
BatchEntry(wi) ==
  [ pc |-> "idle", wi |-> wi, issue_number |-> << >>, cand |-> Candidate(ado, wi),
    result |-> "" ]

InitBatch ==
  /\ FwdIdle
  /\ ado \in AdoConfigs
  /\ origin = BatchIssue
  /\ rv = << >>
  /\ pending = << >>
  /\ \E wis \in [1..BatchSize -> BatchItems] :
       /\ mirror = wis[1]
       /\ trip = [ pc |-> "idle", alive |-> TRUE, flow |-> "running",
                   items |-> [k \in 1..BatchSize |-> BatchEntry(wis[k])] ]

\* updateIssues: the batch query, then forEach starts updateIssue for every
\* matched work item, each up to its client.getWorkItem call, and awaits
\* none of them (gitsync.js:744-793, 803-821)
updateIssuesForEach ==
  /\ trip.pc = "idle"
  /\ \/ /\ trip' = [trip EXCEPT
                      !.pc = "started",
                      !.items = [k \in 1..BatchSize |->
                                   [trip.items[k] EXCEPT !.pc = "getWorkItem"]]]
        /\ UNCHANGED nfail
     \/ \* no connection, a failing query or a null result: -1
        /\ nfail < MaxFailures
        /\ nfail' = nfail + 1
        /\ trip' = [trip EXCEPT !.pc = "failed"]
  /\ UNCHANGED << workItems, autoCreate, inv, mirror, origin, ado, rv, pending >>

\* The promise of work item k's callback is rejected and nothing handles it
\* (gitsync.js:790-792): the runtime either only reports the unhandled
\* rejection, or ends the process with the other callbacks unfinished.
Rejected(b, k, ends) ==
  [ b EXCEPT
      !.alive = ~ends,
      !.items = [h \in 1..BatchSize |->
                   IF h = k THEN [b.items[h] EXCEPT !.pc = "done", !.result = "rejected"]
                   ELSE IF ends /\ b.items[h].pc # "done"
                        THEN [b.items[h] EXCEPT !.pc = "aborted"]
                        ELSE b.items[h]] ]

\* updateIssue of work item k: client.getWorkItem and the issue number
\* (gitsync.js:813-837)
itemGetWorkItem(k) ==
  /\ trip.alive
  /\ trip.items[k].pc = "getWorkItem"
  /\ \/ /\ LET number == IssueNumberOf(trip.items[k].wi.tags)
           IN trip' = [trip EXCEPT
                         !.items[k].issue_number = number,
                         !.items[k].pc = IF number = << >> THEN "done" ELSE "getIssue",
                         !.items[k].result = IF number = << >> THEN "null" ELSE ""]
        /\ UNCHANGED nfail
     \/ /\ nfail < MaxFailures
        /\ nfail' = nfail + 1
        /\ \E ends \in BOOLEAN : trip' = Rejected(trip, k, ends)
  /\ UNCHANGED << workItems, autoCreate, inv, mirror, origin, ado, rv, pending >>

\* updateIssue of work item k: issues.get, the freshness test and the
\* equality guard (gitsync.js:839-911, 931-950)
itemGetIssue(k) ==
  /\ trip.alive
  /\ trip.items[k].pc = "getIssue"
  /\ \/ /\ LET go == /\ IsFresher(trip.items[k].wi, origin)
                      /\ Differs(trip.items[k].cand, origin)
           IN trip' = [trip EXCEPT
                         !.items[k].pc = IF go THEN "update" ELSE "done",
                         !.items[k].result = IF go THEN "" ELSE "null"]
        /\ UNCHANGED nfail
     \/ /\ nfail < MaxFailures
        /\ nfail' = nfail + 1
        /\ \E ends \in BOOLEAN : trip' = Rejected(trip, k, ends)
  /\ UNCHANGED << workItems, autoCreate, inv, mirror, origin, ado, rv, pending >>

\* updateIssue of work item k: issues.update (gitsync.js:912-930)
itemUpdate(k) ==
  /\ trip.alive
  /\ trip.items[k].pc = "update"
  /\ LET payload == UpdatePayload(trip.items[k].issue_number, trip.items[k].cand)
     IN \/ /\ Acceptable(payload)
           /\ origin' = Updated(origin, payload, Now)
           /\ trip' = [trip EXCEPT !.items[k].pc = "done",
                                   !.items[k].result = "result"]
           /\ UNCHANGED nfail
        \/ /\ ~Acceptable(payload)
           /\ \E ends \in BOOLEAN : trip' = Rejected(trip, k, ends)
           /\ UNCHANGED << origin, nfail >>
        \/ /\ nfail < MaxFailures
           /\ nfail' = nfail + 1
           /\ \E ends \in BOOLEAN : trip' = Rejected(trip, k, ends)
           /\ UNCHANGED origin
  /\ UNCHANGED << workItems, autoCreate, inv, mirror, ado, rv, pending >>

\* updateIssues has returned, with the batch started or with -1: the await
\* of performWork and then the await of run resume, and run resolves
\* (gitsync.js:188-192, 35-37)
performWorkResolves ==
  /\ trip.alive
  /\ trip.pc \in {"started", "failed"}
  /\ trip.flow = "running"
  /\ trip' = [trip EXCEPT !.flow = "complete"]
  /\ UNCHANGED << workItems, autoCreate, inv, nfail, mirror, origin, ado, rv,
                  pending >>

NextBatch ==
  \/ updateIssuesForEach
  \/ performWorkResolves
  \/ \E k \in 1..BatchSize :
       \/ itemGetWorkItem(k)
       \/ itemGetIssue(k)
       \/ itemUpdate(k)

SpecBatch == InitBatch /\ [][NextBatch]_vars

\* C17: in the batch of updateIssues, a failure while reconciling one work
\* item (its getItem, getIssue or updateIssue call fails) does not prevent
\* any other matched work item from being reconciled, and the reconciliation
\* of every matched work item is started.
C17_BatchIsolation ==
  trip.pc = "started" =>
    \A k \in 1..BatchSize : trip.items[k].pc \notin {"idle", "aborted"}

\* C24: when a scheduled or manually triggered invocation is complete
\* (performWork and run have resolved), the reconciliation of every work item
\* the batch query matched has finished: none is still waiting for a call
\* or about to issue its update.
C24_BatchCompleteBeforeExit ==
  (trip.flow = "complete" /\ trip.pc = "started") =>
    \A k \in 1..BatchSize : trip.items[k].pc = "done"


(* ----------------------------------------- the closed loop of both paths *)

\* The event of a reverse write re-enters the forward path: performWork's
\* builder for it and updateWorkItem's patch on the issue's work item, which
\* the service stamps with the time of the change. Of the history, which the
\* reverse path never reads, the loop keeps the latest entry.
forwardEvent ==
  /\ pending # << >>
  /\ LET config == [BaseConfig EXCEPT !.action = Head(pending),
                                      !.title = origin.title,
                                      !.body = origin.body,
                                      !.labels = origin.labels,
                                      !.states = ado.states,
                                      !.handles = ado.handles]
         patchDoc == BuilderPatch(Dispatch(config), config)
     IN mirror' = [ApplyPatch(mirror, patchDoc) EXCEPT
                     !.changed = Now,
                     !.history = IF @ = << >> THEN @ ELSE << @[Len(@)] >>]
  /\ pending' = Tail(pending)
  /\ UNCHANGED << fwdVars, origin, ado, rv, trip >>

\* the earlier of the two timestamps
Earlier == IF mirror.changed < origin.updated_at THEN mirror.changed
           ELSE origin.updated_at

\* The next scheduled run: updateIssues matches the work item again
\* (gitsync.js:761-792). The code reads the two timestamps only to compare
\* them (gitsync.js:859-860), so they are kept relative to the earlier one.
updateIssues ==
  /\ rv.pc = "done"
  /\ pending = << >>
  /\ mirror' = [mirror EXCEPT !.changed = @ - Earlier]
  /\ origin' = [origin EXCEPT !.updated_at = @ - Earlier]
  /\ rv' = RevStart(mirror', origin')
  /\ UNCHANGED << fwdVars, ado, pending, trip >>

\* the work item was last written by the forward path or by a user of the
\* mirror; the issue is older; no remote call fails
InitLoop ==
  /\ workItems = << >>
  /\ autoCreate = FALSE
  /\ inv = [i \in Invocations |-> IdleInvocation]
  /\ nfail = MaxFailures
  /\ ado \in AdoConfigs
  /\ \E wi \in MirrorItems :
       /\ IssueNumberOf(wi.tags) # << >>
       /\ mirror = [ f \in DOMAIN wi \cup {"changed"} |->
                       IF f = "changed" THEN 1 ELSE wi[f] ]
  /\ origin \in {i \in Issues : i.updated_at = 0}
  /\ rv = RevStart(mirror, origin)
  /\ pending = << >>
  /\ trip = << >>

NextLoop ==
  \/ updateIssueGetWorkItem
  \/ updateIssueGetIssue
  \/ updateIssueUpdate
  \/ forwardEvent
  \/ updateIssues

\* the schedule keeps starting runs, every started call returns, and every
\* raised event is delivered
SpecLoop ==
  /\ InitLoop
  /\ [][NextLoop]_vars
  /\ WF_vars(updateIssueGetWorkItem)
  /\ WF_vars(updateIssueGetIssue)
  /\ WF_vars(updateIssueUpdate)
  /\ WF_vars(forwardEvent)
  /\ WF_vars(updateIssues)

\* C6: in the closed loop, with no user editing either side, the repeated
\* runs of the reverse reconciler reach a state from which no origin update
\* is issued any more, whatever the work item's state is.
C6_Convergence == <>[](rv.pc # "update")


(* ------------------------------------- the locator among other items *)

\* the event whose work item the service already holds
OwnEvent ==
  CHOOSE c \in Configs :
    /\ c.action = "opened" /\ c.number = <<"4">>
    /\ c.labels = Labels(<< Bug >>) /\ Relevant(c)

\* 'opened' events of other issues: one whose number begins with 4, one of
\* a repository whose name begins with the own one's, and one of issue #7
\* carrying a label named like the issue tag of #4
OtherEvents ==
  { [OwnEvent EXCEPT !.number = <<"4","2">>],
    [OwnEvent EXCEPT !.repo = Repo \o <<"2">>],
    [OwnEvent EXCEPT !.number = <<"7">>,
                     !.labels = Labels(<< IssueTagPrefix \o <<"4">> >>)] }

\* the work item createWorkItem made for an event
ItemOf(config) == ApplyPatch(EmptyItem, createWorkItemPatch(config))

\* the service holds the work items of other issues, with or without the
\* own issue's, made before or after them
InitLocate ==
  /\ RevIdle
  /\ workItems \in
       { << >>, << ItemOf(OwnEvent) >> }
         \cup { << ItemOf(c) >> : c \in OtherEvents }
         \cup { << ItemOf(c), ItemOf(OwnEvent) >> : c \in OtherEvents }
         \cup { << ItemOf(OwnEvent), ItemOf(c) >> : c \in OtherEvents }
  /\ autoCreate \in BOOLEAN
  /\ inv = [i \in Invocations |-> IdleInvocation]
  /\ nfail = 0

\* one invocation, for an event of issue #4
NextLocate ==
  \/ run("A")
  \/ performWork("A")
  \/ getWorkItemQuery("A")
  \/ getWorkItemFetch("A")
  \/ createWorkItem("A")
  \/ updateWorkItem("A")

SpecLocate == InitLocate /\ [][NextLocate]_vars

\* the work item was made for the event's repository and issue: its tags
\* begin with the two join-key tags createWorkItem wrote
BelongsTo(wi, config) == startsWith(wi.tags, JoinKey(config))

\* C23: with the tag filter read as substring containment, the work item
\* the locator's query yields for (repository r, issue n) is the work item
\* of exactly that pair, never the one of an issue whose number begins with
\* n, of a repository whose name begins with r, or of an issue carrying a
\* label named like the issue tag.
C23_LocatorSoundness ==
  \A i \in Invocations :
    inv[i].hit # 0 => BelongsTo(workItems[inv[i].hit], inv[i].config)


(* ------------------------------------------------- the units of work *)

\* An invocation is started for an issue event, and then it is the forward
\* path's unit of work (gitsync.js:155-186), or by the schedule or by hand,
\* and then each matched work item is a unit of work of the reverse path
\* (gitsync.js:188-190, 790-792): the payload holds an action or a schedule.
InitUnit == Init \/ InitRev

NextUnit ==
  \/ rv = << >> /\ Next
  \/ rv # << >> /\ NextRev

SpecUnit == InitUnit /\ [][NextUnit]_vars

\* C21: the processing of one forward event issues at most one createItem
\* call and at most one updateItem call, and the reconciliation of one batch
\* item at most one updateIssue call; hence a failed createItem, updateItem
\* or updateIssue call is never issued again in its unit of work.
C21_NoRetry ==
  /\ \A i \in Invocations :
       /\ Cardinality(CallsOf(i, "createWorkItem")) <= 1
       /\ Cardinality(CallsOf(i, "updateWorkItem")) <= 1
  /\ rv # << >> => Len(rv.updates) <= 1

\* an auto-creation failed, the update that follows it was issued and
\* failed too, and the event's processing ended there
C21_Witness ==
  \E i \in Invocations :
    /\ inv[i].pc = "done"
    /\ inv[i].nested
    /\ inv[i].workItem.kind = "err"
    /\ inv[i].result = "-1"
    /\ Cardinality(CallsOf(i, "createWorkItem")) = 1
    /\ Cardinality(CallsOf(i, "updateWorkItem")) = 1

====
